---- MODULE Spec2Model ----
(***************************************************************************)
(* The input-event codec of crates/ironrdp-pdu/src/input/mod.rs:           *)
(* InputEventPdu and InputEvent with their from_buffer / to_buffer /       *)
(* buffer_length triad, and the InputEventType discriminant mapping.       *)
(*                                                                         *)
(* A byte stream is kept as a rope: a sequence of segments, each a block   *)
(* of bytes repeated `reps` times, and a Vec<InputEvent> as a sequence of  *)
(* runs, each one event repeated `reps` times.  Both are plain lists in    *)
(* run-length form, so that a Vec longer than the 16-bit count field can   *)
(* be written down; every operator below reads them through their length   *)
(* and their i-th element only.                                            *)
(***************************************************************************)
EXTENDS Integers, Sequences, FiniteSets, TLC

VARIABLES
    wire,      \* the bytes written so far (rope), the source of every read
    avail,     \* how many bytes of `wire` the reader is handed (a slice)
    cursor,    \* the reader's position: bytes consumed so far
    writes,    \* log of what was written: to_buffer calls and peer bytes
    results,   \* log of the from_buffer calls made and what each returned
    echo       \* the bytes to_buffer wrote for the last decoded value

vars == <<wire, avail, cursor, writes, results, echo>>

-----------------------------------------------------------------------------
(* Bounds of the model *)

MaxEvents == 2
MaxReads == 2

(* `as u16` keeps the low 16 bits *)
U16Modulus == 65536

-----------------------------------------------------------------------------
(* Ropes: byte streams in run-length form *)

RECURSIVE RopeLen(_)
RopeLen(r) ==
    IF r = <<>> THEN 0
    ELSE Len(r[1].bytes) * r[1].reps + RopeLen(Tail(r))

RECURSIVE RopeAt(_, _)
RopeAt(r, i) ==
    LET n == Len(r[1].bytes) * r[1].reps IN
    IF i <= n THEN r[1].bytes[((i - 1) % Len(r[1].bytes)) + 1]
    ELSE RopeAt(Tail(r), i - n)

Seg(b, n) == [bytes |-> b, reps |-> n]

(* The bytes at positions from+1 .. from+n of a rope, as a plain sequence *)
RopeSlice(r, from, n) == [k \in 1..n |-> RopeAt(r, from + k)]

-----------------------------------------------------------------------------
(* Vec<InputEvent> in run-length form *)

Run(e, n) == [ev |-> e, reps |-> n]

RECURSIVE VecLen(_)
VecLen(v) == IF v = <<>> THEN 0 ELSE v[1].reps + VecLen(Tail(v))

RECURSIVE VecAt(_, _)
VecAt(v, i) == IF i <= v[1].reps THEN v[1].ev ELSE VecAt(Tail(v), i - v[1].reps)

(* Vec equality (derive(PartialEq)): same length, same element at every index *)
VecEq(a, b) ==
    /\ VecLen(a) = VecLen(b)
    /\ \A i \in 1..VecLen(a) : VecAt(a, i) = VecAt(b, i)

-----------------------------------------------------------------------------
(* byteorder: little-endian integer writes and reads *)

write_u16(n) == <<n % 256, (n \div 256) % 256>>

write_u32(n) ==
    <<n % 256, (n \div 256) % 256, (n \div 65536) % 256, (n \div 16777216) % 256>>

(* A reader: the slice data[1..len] of a rope *)
Stream(r, n) == [data |-> r, len |-> n]

(* io::Read::read_exact at position pos of stream s.  On a short read the  *)
(* std reader either leaves the position alone (the slice reader) or has   *)
(* consumed what was left (the default read loop); `drain` says which.     *)
read_exact(s, pos, n, drain) ==
    IF pos + n <= s.len
    THEN [ok |-> TRUE, bytes |-> RopeSlice(s.data, pos, n), pos |-> pos + n]
    ELSE [ok |-> FALSE, bytes |-> <<>>, pos |-> IF drain THEN s.len ELSE pos]

read_u16(s, pos, drain) ==
    LET r == read_exact(s, pos, 2, drain) IN
    [ok |-> r.ok, pos |-> r.pos,
     val |-> IF r.ok THEN r.bytes[1] + 256 * r.bytes[2] ELSE 0]

(* The u32 read is kept as its low and high 16-bit halves *)
read_u32(s, pos, drain) ==
    LET r == read_exact(s, pos, 4, drain) IN
    [ok |-> r.ok, pos |-> r.pos,
     val |-> IF r.ok
             THEN <<r.bytes[1] + 256 * r.bytes[2], r.bytes[3] + 256 * r.bytes[4]>>
             ELSE <<0, 0>>]

-----------------------------------------------------------------------------
(* The seven variant payloads (sync.rs, unused.rs, scan_code.rs,           *)
(* unicode.rs, mouse.rs, mouse_x.rs, mouse_rel.rs).  Each is a fixed       *)
(* block of PayloadLen bytes read after the event type.  The fields        *)
(* inside a block are those files' business: a payload value is kept here  *)
(* as the block it was read from, and written back as that block.          *)

Kinds == {"Sync", "Unused", "ScanCode", "Unicode", "Mouse", "MouseX", "MouseRel"}

PayloadLen == 6

Variant_from_buffer(kind, s, pos, drain) ==
    LET r == read_exact(s, pos, PayloadLen, drain) IN
    [ok |-> r.ok, pos |-> r.pos, val |-> IF r.ok THEN r.bytes ELSE <<>>]

Variant_to_buffer(kind, payload) == payload

Variant_buffer_length(kind) == PayloadLen

-----------------------------------------------------------------------------
(* enum InputEventType and its conversions *)

NoType == "None"

(* A from_u16 that falls back to a default variant for an unmapped code;   *)
(* UnknownTagRejected must tell it from the code's.                        *)
InputEventType_from_u16_or_default(c) ==
    CASE c = 2 -> "Unused"
      [] c = 4 -> "ScanCode"
      [] c = 5 -> "Unicode"
      [] c = 32769 -> "Mouse"
      [] c = 32770 -> "MouseX"
      [] c = 32772 -> "MouseRel"
      [] OTHER -> "Sync"

(* FromPrimitive::from_u16 over the #[repr(u16)] discriminants *)
InputEventType_from_u16(c) ==
    CASE c = 0 -> "Sync"
      [] c = 2 -> "Unused"
      [] c = 4 -> "ScanCode"
      [] c = 5 -> "Unicode"
      [] c = 32769 -> "Mouse"
      [] c = 32770 -> "MouseX"
      [] c = 32772 -> "MouseRel"
      [] OTHER -> NoType

(* A discriminant table in which MouseX shares the code of Mouse;          *)
(* DiscriminantBijection must tell it from the code's.                     *)
InputEventType_to_u16_shared(t) ==
    CASE t = "Sync" -> 0
      [] t = "Unused" -> 2
      [] t = "ScanCode" -> 4
      [] t = "Unicode" -> 5
      [] t = "Mouse" -> 32769
      [] t = "MouseX" -> 32769
      [] t = "MouseRel" -> 32772

(* ToPrimitive::to_u16 *)
InputEventType_to_u16(t) ==
    CASE t = "Sync" -> 0
      [] t = "Unused" -> 2
      [] t = "ScanCode" -> 4
      [] t = "Unicode" -> 5
      [] t = "Mouse" -> 32769
      [] t = "MouseX" -> 32770
      [] t = "MouseRel" -> 32772

(* impl From<&InputEvent> for InputEventType *)
InputEventType_from(event) ==
    CASE event.kind = "Sync" -> "Sync"
      [] event.kind = "Unused" -> "Unused"
      [] event.kind = "ScanCode" -> "ScanCode"
      [] event.kind = "Unicode" -> "Unicode"
      [] event.kind = "Mouse" -> "Mouse"
      [] event.kind = "MouseX" -> "MouseX"
      [] event.kind = "MouseRel" -> "MouseRel"

-----------------------------------------------------------------------------
(* enum InputEventError, and the Result of a from_buffer call.             *)
(* A result carries the value as a Vec (one element for an InputEvent)     *)
(* and the reader's position after the call.                               *)

IOError == "IOError"
InvalidInputEventType == "InvalidInputEventType"

Ok(v, pos) == [ok |-> TRUE, err |-> "", code |-> 0, val |-> v, pos |-> pos]

Err(e, c, pos) == [ok |-> FALSE, err |-> e, code |-> c, val |-> <<>>, pos |-> pos]

InputEvent(kind, payload) == [kind |-> kind, payload |-> payload]

-----------------------------------------------------------------------------
(* impl PduParsing for InputEvent *)

InputEvent_from_buffer(s, pos, drain) ==
    LET time == read_u32(s, pos, drain) IN
    IF ~time.ok THEN Err(IOError, 0, time.pos)
    ELSE
    LET code == read_u16(s, time.pos, drain) IN
    IF ~code.ok THEN Err(IOError, 0, code.pos)
    ELSE
    LET event_type == InputEventType_from_u16(code.val) IN
    IF event_type = NoType THEN Err(InvalidInputEventType, code.val, code.pos)
    ELSE
    LET pdu == Variant_from_buffer(event_type, s, code.pos, drain) IN
    IF ~pdu.ok THEN Err(IOError, 0, pdu.pos)
    ELSE Ok(<<Run(InputEvent(event_type, pdu.val), 1)>>, pdu.pos)

InputEvent_to_buffer(event) ==
    write_u32(0)
    \o write_u16(InputEventType_to_u16(InputEventType_from(event)))
    \o Variant_to_buffer(event.kind, event.payload)

(* A buffer_length that counts the event time and forgets the event type;  *)
(* LengthInvariant must tell it from the code's.                           *)
InputEvent_buffer_length_no_type(event) == 4 + Variant_buffer_length(event.kind)

InputEvent_buffer_length(event) == 6 + Variant_buffer_length(event.kind)

-----------------------------------------------------------------------------
(* impl PduParsing for InputEventPdu *)

(* A collect that returns the events decoded so far when an element fails; *)
(* TruncationSafety must tell it from the code's.                          *)
RECURSIVE collect_best_effort(_, _, _, _, _)
collect_best_effort(s, pos, n, events, drain) ==
    IF n = 0 THEN Ok(events, pos)
    ELSE LET r == InputEvent_from_buffer(s, pos, drain) IN
         IF ~r.ok THEN Ok(events, pos)
         ELSE collect_best_effort(s, r.pos, n - 1, events \o r.val, drain)

(* A collect that skips an element of unknown type and goes on with the    *)
(* next; FirstFailurePropagation must tell it from the code's.             *)
RECURSIVE collect_skip_unknown(_, _, _, _, _)
collect_skip_unknown(s, pos, n, events, drain) ==
    IF n = 0 THEN Ok(events, pos)
    ELSE LET r == InputEvent_from_buffer(s, pos, drain) IN
         IF r.ok THEN collect_skip_unknown(s, r.pos, n - 1, events \o r.val, drain)
         ELSE IF r.err = IOError THEN r
         ELSE LET skipped == read_exact(s, r.pos, PayloadLen, drain) IN
              IF ~skipped.ok THEN Err(IOError, 0, skipped.pos)
              ELSE collect_skip_unknown(s, skipped.pos, n - 1, events, drain)

(* (0..number_of_events).map(from_buffer).collect::<Result<Vec<_>, _>>():  *)
(* elements are decoded in order; the first Err ends the iteration and is  *)
(* the result, the events collected so far are dropped.                    *)
RECURSIVE collect(_, _, _, _, _)
collect(s, pos, n, events, drain) ==
    IF n = 0 THEN Ok(events, pos)
    ELSE LET r == InputEvent_from_buffer(s, pos, drain) IN
         IF ~r.ok THEN r
         ELSE collect(s, r.pos, n - 1, events \o r.val, drain)

(* A from_buffer whose range starts at 1, one element short of the count;  *)
(* SequenceCountFidelity must tell it from the code's.                     *)
InputEventPdu_from_buffer_from_one(s, pos, drain) ==
    LET number_of_events == read_u16(s, pos, drain) IN
    IF ~number_of_events.ok THEN Err(IOError, 0, number_of_events.pos)
    ELSE
    LET padding == read_u16(s, number_of_events.pos, drain) IN
    IF ~padding.ok THEN Err(IOError, 0, padding.pos)
    ELSE collect(s, padding.pos,
                 IF number_of_events.val = 0 THEN 0 ELSE number_of_events.val - 1,
                 <<>>, drain)

InputEventPdu_from_buffer(s, pos, drain) ==
    LET number_of_events == read_u16(s, pos, drain) IN
    IF ~number_of_events.ok THEN Err(IOError, 0, number_of_events.pos)
    ELSE
    LET padding == read_u16(s, number_of_events.pos, drain) IN
    IF ~padding.ok THEN Err(IOError, 0, padding.pos)
    ELSE collect(s, padding.pos, number_of_events.val, <<>>, drain)

(* for event in self.0.iter() { event.to_buffer(&mut stream)?; }           *)
(* A run of n equal events writes the same bytes n times.                  *)
RECURSIVE to_buffer_events(_)
to_buffer_events(v) ==
    IF v = <<>> THEN <<>>
    ELSE <<Seg(InputEvent_to_buffer(v[1].ev), v[1].reps)>>
         \o to_buffer_events(Tail(v))

InputEventPdu_to_buffer(v) ==
    <<Seg(write_u16(VecLen(v) % U16Modulus) \o write_u16(0), 1)>>
    \o to_buffer_events(v)

RECURSIVE sum_buffer_length(_)
sum_buffer_length(v) ==
    IF v = <<>> THEN 0
    ELSE v[1].reps * InputEvent_buffer_length(v[1].ev)
         + sum_buffer_length(Tail(v))

InputEventPdu_buffer_length(v) == 4 + sum_buffer_length(v)

-----------------------------------------------------------------------------
(* Inputs *)

EventInputs ==
    { InputEvent("Sync", <<0, 0, 1, 0, 0, 0>>),
      InputEvent("Unused", <<0, 0, 0, 0, 0, 0>>),
      InputEvent("ScanCode", <<0, 128, 30, 0, 0, 0>>),
      InputEvent("ScanCode", <<0, 0, 31, 0, 0, 0>>),
      InputEvent("Unicode", <<0, 0, 65, 0, 0, 0>>),
      InputEvent("Mouse", <<0, 8, 10, 0, 20, 0>>),
      InputEvent("MouseX", <<1, 128, 10, 0, 20, 0>>),
      InputEvent("MouseRel", <<0, 8, 255, 255, 1, 0>>) }

(* Every list of at most MaxEvents events *)
ShortPdus ==
    UNION { { [i \in 1..n |-> Run(f[i], 1)] : f \in [1..n -> EventInputs] }
            : n \in 0..MaxEvents }

(* A list one longer than the largest count a u16 holds *)
LongPdus == { <<Run(InputEvent("Sync", <<0, 0, 1, 0, 0, 0>>), U16Modulus)>> }

PduInputs == ShortPdus \cup LongPdus

(* What an untrusted peer may put on the wire: any count and reserved      *)
(* field, and elements with any event time, event type and payload.        *)
PeerCounts == 0..(MaxEvents + 1)

PeerReserved == {43981}

PeerElements ==
    { [time |-> 0, code |-> 1, payload |-> <<9, 9, 9, 9, 9, 9>>],
      [time |-> 0, code |-> 32773, payload |-> <<9, 9, 9, 9, 9, 9>>],
      [time |-> 0, code |-> 65535, payload |-> <<9, 9, 9, 9, 9, 9>>],
      [time |-> 16909060, code |-> 0, payload |-> <<7, 7, 2, 0, 0, 0>>],
      [time |-> 16909060, code |-> 2, payload |-> <<1, 2, 3, 4, 5, 6>>],
      [time |-> 2147483647, code |-> 32770, payload |-> <<2, 128, 5, 0, 6, 0>>] }

(* How many bytes a dropped connection may cut off the end of peer bytes *)
CutBacks == {6, 9}

-----------------------------------------------------------------------------
(* The state machine: writers fill the wire, then a reader decodes it *)

Written(kind, v, bytes, elems) ==
    [kind |-> kind, val |-> v, at |-> RopeLen(wire), n |-> RopeLen(bytes),
     elems |-> elems]

RECURSIVE Elems(_)
Elems(ws) == IF ws = <<>> THEN 0 ELSE ws[1].elems + Elems(Tail(ws))

Trusted == \A i \in 1..Len(writes) : writes[i].kind \in {"pdu", "event"}

Uncut == avail = RopeLen(wire)

Writing == results = <<>> /\ Uncut /\ Len(writes) <= MaxEvents

(* A wire carries either whole PDUs or bare elements after a peer's header *)
PduWire == \A i \in 1..Len(writes) : writes[i].kind = "pdu"

ElementWire == \A i \in 1..Len(writes) : writes[i].kind # "pdu"

Init ==
    /\ wire = <<>>
    /\ avail = 0
    /\ cursor = 0
    /\ writes = <<>>
    /\ results = <<>>
    /\ echo = <<>>

Put(kind, v, bytes, elems) ==
    /\ wire' = wire \o bytes
    /\ avail' = RopeLen(wire) + RopeLen(bytes)
    /\ writes' = Append(writes, Written(kind, v, bytes, elems))
    /\ UNCHANGED <<cursor, results, echo>>

(* InputEventPdu::to_buffer(&pdu, &mut wire) *)
PduToBuffer(v) ==
    /\ Writing
    /\ PduWire
    /\ Len(writes) < 2
    /\ VecLen(v) = 0 \/ writes = <<>> \/ Elems(writes) + VecLen(v) <= MaxEvents
    /\ Put("pdu", v, InputEventPdu_to_buffer(v), VecLen(v))

(* InputEvent::to_buffer(&event, &mut wire) *)
EventToBuffer(e) ==
    /\ Writing
    /\ writes = <<>> \/ (Len(writes) = 1 /\ writes[1].kind = "peer_header")
    /\ Put("event", <<Run(e, 1)>>, <<Seg(InputEvent_to_buffer(e), 1)>>, 1)

(* The peer sends a count and a reserved field of its choosing *)
PeerHeader(n, r) ==
    /\ Writing
    /\ writes = <<>>
    /\ Put("peer_header", <<>>, <<Seg(write_u16(n) \o write_u16(r), 1)>>, 0)

(* The peer sends an element of its choosing *)
PeerElement(x) ==
    /\ Writing
    /\ ElementWire
    /\ Elems(writes) + 1 <= MaxEvents
    /\ Put("peer_element", <<>>,
           <<Seg(write_u32(x.time) \o write_u16(x.code) \o x.payload, 1)>>, 1)

(* The reader is handed a strict prefix of what was written *)
Cut(n) ==
    /\ Writing
    /\ writes # <<>>
    /\ Elems(writes) <= MaxEvents
    /\ n < avail
    /\ (Trusted /\ Len(writes) = 1) \/ (~Trusted /\ (avail - n) \in CutBacks)
    /\ avail' = n
    /\ UNCHANGED <<wire, cursor, writes, results, echo>>

Reading ==
    /\ Len(results) < MaxReads
    /\ results # <<>> => results[Len(results)].ok
    /\ echo = <<>>

(* One reader makes calls of one kind *)
Calls(op) == \A i \in 1..Len(results) : results[i].op = op

Called(op, r, drain) ==
    [op |-> op, at |-> cursor, drain |-> drain /\ ~r.ok, ok |-> r.ok,
     err |-> r.err, code |-> r.code, val |-> r.val, pos |-> r.pos]

(* InputEventPdu::from_buffer(&mut reader) *)
PduFromBuffer(drain) ==
    /\ Reading
    /\ Calls("pdu")
    /\ LET r == InputEventPdu_from_buffer(Stream(wire, avail), cursor, drain) IN
       /\ results' = Append(results, Called("pdu", r, drain))
       /\ cursor' = r.pos
    /\ UNCHANGED <<wire, avail, writes, echo>>

(* InputEvent::from_buffer(&mut reader) *)
EventFromBuffer(drain) ==
    /\ Reading
    /\ Calls("event")
    /\ LET r == InputEvent_from_buffer(Stream(wire, avail), cursor, drain) IN
       /\ results' = Append(results, Called("event", r, drain))
       /\ cursor' = r.pos
    /\ UNCHANGED <<wire, avail, writes, echo>>

(* to_buffer of the value the last from_buffer returned, into a new sink *)
ReEncode ==
    /\ results # <<>>
    /\ echo = <<>>
    /\ LET last == results[Len(results)] IN
       /\ last.ok
       /\ echo' = IF last.op = "pdu" THEN InputEventPdu_to_buffer(last.val)
                  ELSE <<Seg(InputEvent_to_buffer(last.val[1].ev), 1)>>
    /\ UNCHANGED <<wire, avail, cursor, writes, results>>

Next ==
    \/ \E v \in PduInputs : PduToBuffer(v)
    \/ \E e \in EventInputs : EventToBuffer(e)
    \/ \E n \in PeerCounts, r \in PeerReserved : PeerHeader(n, r)
    \/ \E x \in PeerElements : PeerElement(x)
    \/ \E n \in 0..(4 * (MaxEvents + 1) + 12 * MaxEvents) : Cut(n)
    \/ \E drain \in BOOLEAN : PduFromBuffer(drain)
    \/ \E drain \in BOOLEAN : EventFromBuffer(drain)
    \/ ReEncode

Spec == Init /\ [][Next]_vars

-----------------------------------------------------------------------------
(* Reading the log *)

(* The little-endian u16 at bytes at+1, at+2 of a rope *)
U16At(r, at) == RopeAt(r, at + 1) + 256 * RopeAt(r, at + 2)

PduWritten(j) == j \in 1..Len(writes) /\ writes[j].kind = "pdu"

EventWritten(j) == j \in 1..Len(writes) /\ writes[j].kind = "event"

PduRead(i) == i \in 1..Len(results) /\ results[i].op = "pdu"

EventRead(i) == i \in 1..Len(results) /\ results[i].op = "event"

(* The count of a written list fits the 16-bit count field *)
CountFits(v) == VecLen(v) < U16Modulus

LogIndices == 1..(MaxEvents + 2)

-----------------------------------------------------------------------------
(* C1: from_buffer on the bytes a to_buffer call wrote returns Ok with a   *)
(* list equal to the one written: same length, same event at every index.  *)
RoundTrip ==
    \A i, j \in LogIndices :
        (PduRead(i) /\ PduWritten(j) /\ Uncut /\ results[i].at = writes[j].at)
        => /\ results[i].ok
           /\ VecEq(results[i].val, writes[j].val)

(* The round trip of the lists whose length the count field can hold *)
RoundTripWithinCount ==
    \A i, j \in LogIndices :
        (PduRead(i) /\ PduWritten(j) /\ Uncut /\ results[i].at = writes[j].at
         /\ CountFits(writes[j].val))
        => /\ results[i].ok
           /\ VecEq(results[i].val, writes[j].val)

RoundTripReached ==
    \E i, j \in LogIndices :
        /\ PduRead(i) /\ PduWritten(j) /\ Uncut /\ results[i].at = writes[j].at
        /\ VecLen(writes[j].val) = 2
        /\ writes[j].val[1].ev # writes[j].val[2].ev

-----------------------------------------------------------------------------
(* C2: every to_buffer call writes exactly buffer_length() bytes, for an   *)
(* InputEventPdu (4 + the sum over its events) and for an InputEvent.      *)
LengthInvariant ==
    /\ \A j \in LogIndices :
        /\ PduWritten(j)
           => writes[j].n = InputEventPdu_buffer_length(writes[j].val)
        /\ EventWritten(j)
           => writes[j].n = InputEvent_buffer_length(writes[j].val[1].ev)
    /\ (echo # <<>> /\ results[Len(results)].op = "pdu")
       => RopeLen(echo) = InputEventPdu_buffer_length(results[Len(results)].val)
    /\ (echo # <<>> /\ results[Len(results)].op = "event")
       => RopeLen(echo) = InputEvent_buffer_length(results[Len(results)].val[1].ev)

LengthInvariantReached ==
    /\ \E j \in LogIndices : PduWritten(j) /\ VecLen(writes[j].val) = 2
                             /\ writes[j].n = 28
    /\ \E j \in LogIndices : PduWritten(j) /\ VecLen(writes[j].val) = 0
                             /\ writes[j].n = 4

LengthInvariantEventReached ==
    \E j \in LogIndices : EventWritten(j) /\ writes[j].n = 12

-----------------------------------------------------------------------------
(* C3: InputEvent::from_buffer on a 6-byte header whose event type c is    *)
(* none of the seven codes returns Err(InvalidInputEventType(c)) with that *)
(* c, whatever follows the header; never Ok, never an IO error.            *)
KnownCodes == {0, 2, 4, 5, 32769, 32770, 32772}

UnknownHeaderAt(i) ==
    /\ EventRead(i)
    /\ results[i].at + 6 <= avail
    /\ U16At(wire, results[i].at + 4) \notin KnownCodes

UnknownTagRejected ==
    \A i \in LogIndices :
        UnknownHeaderAt(i)
        => /\ ~results[i].ok
           /\ results[i].err = InvalidInputEventType
           /\ results[i].code = U16At(wire, results[i].at + 4)
           /\ results[i].pos = results[i].at + 6

(* an unknown type with nothing after the header, here the code 0x0001 *)
UnknownTagReached ==
    \E i \in LogIndices :
        /\ UnknownHeaderAt(i)
        /\ results[i].at + 6 = avail
        /\ results[i].code = 1

-----------------------------------------------------------------------------
(* C4: from_buffer on a strict prefix of the encoding of a list the count  *)
(* field can hold returns Err(IOError), and no read goes past the end of   *)
(* what the reader was handed.                                             *)
StrictPrefix ==
    /\ Trusted /\ ~Uncut
    /\ PduWritten(1) /\ CountFits(writes[1].val)

TruncationSafety ==
    /\ \A i \in LogIndices :
        i \in 1..Len(results) => results[i].pos <= avail
    /\ (StrictPrefix /\ PduRead(1))
       => /\ ~results[1].ok
          /\ results[1].err = IOError

(* the 3-byte input, shorter than the count and reserved fields *)
TruncationReached ==
    /\ StrictPrefix /\ PduRead(1)
    /\ avail = 3
    /\ results[1].err = IOError

(* a prefix that ends inside the second element *)
TruncationInsideElementReached ==
    /\ StrictPrefix /\ PduRead(1)
    /\ avail > 16 /\ avail < 28
    /\ ~results[1].ok

-----------------------------------------------------------------------------
(* C5: InputEventPdu::from_buffer returns Ok only with exactly as many     *)
(* events as the count field says; after a header that declares N, M < N   *)
(* well-formed elements and nothing more make it fail with the missing     *)
(* element's IO error.                                                     *)
WellFormedElement(j) ==
    InputEvent_from_buffer(Stream(wire, avail), writes[j].at, FALSE).ok

ShortOfElements ==
    /\ Uncut
    /\ writes # <<>> /\ writes[1].kind = "peer_header"
    /\ \A j \in 2..Len(writes) : WellFormedElement(j)
    /\ Len(writes) - 1 < U16At(wire, 0)

SequenceCountFidelity ==
    /\ \A i \in LogIndices :
        (PduRead(i) /\ results[i].ok)
        => VecLen(results[i].val) = U16At(wire, results[i].at)
    /\ (ShortOfElements /\ PduRead(1))
       => /\ ~results[1].ok
          /\ results[1].err = IOError

(* a header declaring 2 followed by one well-formed element *)
SequenceCountReached ==
    /\ ShortOfElements /\ PduRead(1)
    /\ Len(writes) = 2
    /\ U16At(wire, 0) = 2

-----------------------------------------------------------------------------
(* C6: a successful from_buffer advances the reader by exactly the         *)
(* buffer_length() of what it returned, so that two PDUs written one after *)
(* the other are returned by two successive calls, first and then second.  *)
ConsumesBufferLength ==
    \A i \in LogIndices :
        /\ (PduRead(i) /\ results[i].ok)
           => results[i].pos - results[i].at
              = InputEventPdu_buffer_length(results[i].val)
        /\ (EventRead(i) /\ results[i].ok)
           => results[i].pos - results[i].at
              = InputEvent_buffer_length(results[i].val[1].ev)

TwoWrittenTwoRead ==
    /\ Uncut
    /\ PduWritten(1) /\ PduWritten(2)
    /\ PduRead(1) /\ PduRead(2)

ExactConsumption ==
    /\ ConsumesBufferLength
    /\ TwoWrittenTwoRead
       => /\ results[1].ok /\ VecEq(results[1].val, writes[1].val)
          /\ results[2].ok /\ VecEq(results[2].val, writes[2].val)

(* The same for first PDUs whose length the count field can hold *)
ExactConsumptionWithinCount ==
    /\ ConsumesBufferLength
    /\ (TwoWrittenTwoRead /\ CountFits(writes[1].val))
       => /\ results[1].ok /\ VecEq(results[1].val, writes[1].val)
          /\ results[2].ok /\ VecEq(results[2].val, writes[2].val)

ExactConsumptionReached ==
    /\ TwoWrittenTwoRead
    /\ VecLen(writes[1].val) = 1 /\ VecLen(writes[2].val) = 1
    /\ writes[1].val # writes[2].val

-----------------------------------------------------------------------------
(* C7: the variant-to-code mapping of to_buffer is one-to-one, is the      *)
(* table Sync 0x0000, Unused 0x0002, ScanCode 0x0004, Unicode 0x0005,      *)
(* Mouse 0x8001, MouseX 0x8002, MouseRel 0x8004, and from_buffer's         *)
(* dispatch inverts it: an encoded event decodes to the same variant.      *)
CodeOf(kind) ==
    CASE kind = "Sync" -> 0
      [] kind = "Unused" -> 2
      [] kind = "ScanCode" -> 4
      [] kind = "Unicode" -> 5
      [] kind = "Mouse" -> 32769
      [] kind = "MouseX" -> 32770
      [] kind = "MouseRel" -> 32772

DiscriminantBijection ==
    /\ \A j \in LogIndices :
        EventWritten(j)
        => U16At(wire, writes[j].at + 4) = CodeOf(writes[j].val[1].ev.kind)
    /\ \A i, j \in LogIndices :
        (EventRead(i) /\ EventWritten(j) /\ Uncut
         /\ results[i].at = writes[j].at)
        => /\ results[i].ok
           /\ results[i].val[1].ev.kind = writes[j].val[1].ev.kind
    /\ \A e1, e2 \in EventInputs :
        InputEventType_to_u16(InputEventType_from(e1))
            = InputEventType_to_u16(InputEventType_from(e2))
        => e1.kind = e2.kind

DiscriminantReached ==
    \E i, j \in LogIndices :
        /\ EventRead(i) /\ EventWritten(j) /\ Uncut
        /\ results[i].at = writes[j].at
        /\ writes[j].val[1].ev.kind = "MouseX"
        /\ results[i].ok

-----------------------------------------------------------------------------
(* C8: the count field to_buffer writes, the first two bytes, equals the   *)
(* number of events of the list, for every length of the list.             *)
CountEqualsLength ==
    \A j \in LogIndices :
        PduWritten(j) => U16At(wire, writes[j].at) = VecLen(writes[j].val)

(* What the code writes: the length modulo 2^16 *)
CountIsLengthModulo ==
    \A j \in LogIndices :
        PduWritten(j)
        => U16At(wire, writes[j].at) = VecLen(writes[j].val) % U16Modulus

-----------------------------------------------------------------------------
(* The fields of an encoded PDU by position k = 1, 2, ... from its start:  *)
(* count (1, 2), reserved (3, 4), then elements of ElementLen bytes, each  *)
(* event time (4 bytes), event type (2 bytes) and payload.                 *)
ElementLen == 6 + PayloadLen

IgnoredField(k) == k \in {3, 4} \/ (k > 4 /\ (k - 5) % ElementLen < 4)

PayloadField(k) == k > 4 /\ (k - 5) % ElementLen >= 6

(* The wires short enough to be compared byte by byte *)
ShortWire == Elems(writes) <= MaxEvents

(* The reader's slice with the ignored fields of a PDU starting at `at`    *)
(* overwritten by zero                                                     *)
Zeroed(at) ==
    Stream(<<Seg([k \in 1..avail |->
                    IF k > at /\ IgnoredField(k - at) THEN 0
                    ELSE RopeAt(wire, k)], 1)>>, avail)

(* Two inputs that differ only in ignored fields give the same result:     *)
(* each gives the result of the input with those fields zero.              *)
IgnoredOnDecode ==
    \A i \in LogIndices :
        (PduRead(i) /\ ShortWire)
        => LET r == InputEventPdu_from_buffer(Zeroed(results[i].at),
                                              results[i].at, results[i].drain)
           IN /\ r.ok = results[i].ok
              /\ r.err = results[i].err
              /\ r.code = results[i].code
              /\ r.val = results[i].val
              /\ r.pos = results[i].pos

Shorter(a, b) == IF a < b THEN a ELSE b

ZeroOnEncode ==
    /\ \A j \in LogIndices :
        PduWritten(j)
        => \A k \in 1..Shorter(writes[j].n, 4 + ElementLen * (MaxEvents + 1)) :
             IgnoredField(k) => RopeAt(wire, writes[j].at + k) = 0
    /\ \A j \in LogIndices :
        EventWritten(j)
        => \A k \in 1..4 : RopeAt(wire, writes[j].at + k) = 0
    /\ (echo # <<>> /\ results[Len(results)].op = "pdu")
       => \A k \in 1..RopeLen(echo) : IgnoredField(k) => RopeAt(echo, k) = 0

ReEncoded == echo # <<>> /\ results[Len(results)].op = "pdu"

(* Where the re-encoding of a decoded PDU differs from the bytes decoded *)
EchoDiffers(k) ==
    RopeAt(echo, k) # RopeAt(wire, results[Len(results)].at + k)

EchoLength ==
    RopeLen(echo) = results[Len(results)].pos - results[Len(results)].at

(* C9, the part InputEventPdu and InputEvent decide: the reserved field    *)
(* and the event times do not influence decoding and are written as zero,  *)
(* and encode(decode(b)) has the length of the bytes decoded and, outside  *)
(* the variant payloads, differs from them at most in those fields.        *)
IgnoredFieldsOutsidePayloads ==
    /\ IgnoredOnDecode
    /\ ZeroOnEncode
    /\ ReEncoded
       => /\ EchoLength
          /\ \A k \in 1..RopeLen(echo) :
               (EchoDiffers(k) /\ ~PayloadField(k)) => IgnoredField(k)

(* a decoded and re-encoded input with a nonzero reserved field and a      *)
(* nonzero event time                                                      *)
IgnoredFieldsReached ==
    /\ ReEncoded
    /\ results[Len(results)].at = 0
    /\ RopeLen(echo) > 4
    /\ EchoDiffers(3)
    /\ EchoDiffers(5)

-----------------------------------------------------------------------------
(* C10: elements are decoded in stream order; the call returns the error   *)
(* of the lowest-index element that fails, with the reader where that      *)
(* element's decode left it, and no list.                                  *)
ElementOf(i, j) ==
    InputEvent_from_buffer(Stream(wire, avail),
                           results[i].at + 4 + ElementLen * (j - 1),
                           results[i].drain)

(* The elements that can start inside the reader's slice, and one more *)
Slots(i) ==
    1..Shorter(U16At(wire, results[i].at),
               (avail - results[i].at - 4) \div ElementLen + 1)

Failing(i) == { j \in Slots(i) : ~ElementOf(i, j).ok }

Lowest(S) == CHOOSE j \in S : \A k \in S : j <= k

FirstFailurePropagation ==
    \A i \in LogIndices :
        (PduRead(i) /\ results[i].at + 4 <= avail)
        => IF Failing(i) = {} THEN results[i].ok
           ELSE LET e == ElementOf(i, Lowest(Failing(i))) IN
                /\ ~results[i].ok
                /\ results[i].err = e.err
                /\ results[i].code = e.code
                /\ results[i].pos = e.pos
                /\ results[i].val = <<>>

(* an unknown event type in the first element, a truncated second one *)
FirstFailureReached ==
    \E i \in LogIndices :
        /\ PduRead(i) /\ results[i].at + 4 <= avail
        /\ Failing(i) = {1, 2}
        /\ results[i].err = InvalidInputEventType
        /\ ElementOf(i, 2).err = IOError
        /\ avail > results[i].at + 4 + ElementLen

(* a valid first element decoded and dropped, the second one failing *)
FirstFailureSecondReached ==
    \E i \in LogIndices :
        /\ PduRead(i) /\ results[i].at + 4 <= avail
        /\ Failing(i) = {2}
        /\ results[i].err = InvalidInputEventType

====
